---------------------------- MODULE Spec2Model ----------------------------
(***************************************************************************)
(* Model of the LCD virtual file system of pybot-lcd-fuse                  *)
(* (src/src/pybot/lcd_fuse/lcdfs.py, dummy.py).                            *)
(*                                                                         *)
(* Python strings are sequences of one-character strings, so that the      *)
(* conversions str(int), int(str) and int(str, 16) are computed and not    *)
(* assumed.  None is the string "None" where a value is a string, and the  *)
(* empty sequence where a value is a number (<<>> is None, <<v>> is v).    *)
(***************************************************************************)
EXTENDS Integers, Sequences, FiniteSets, TLC

(***************************************************************************)
(* Bounds of the model.                                                    *)
(***************************************************************************)
\* the clock runs from the mount time 0 to MaxTime
MaxTime == 1
\* the keypad states the environment produces are 0..MaxKeypad
MaxKeypad == 5
\* open is called at most MaxOpen times
MaxOpen == 2
\* the number of chunks of ANSI engine input that are remembered
MaxTerm == 2

(***************************************************************************)
(* Text: str(int), str.strip(), int(str), int(str, 16), '%-16s'.           *)
(***************************************************************************)
Digits == <<"0", "1", "2", "3", "4", "5", "6", "7", "8", "9">>

Whitespace == {" ", "\t", "\n", "\r", "\f"}

\* the value of each character that is a digit in base 16
HexDigitValue ==
    [c \in {Digits[i] : i \in 1..10} |-> (CHOOSE i \in 1..10 : Digits[i] = c) - 1]
        @@ ("a" :> 10) @@ ("b" :> 11) @@ ("c" :> 12) @@ ("d" :> 13) @@ ("e" :> 14) @@ ("f" :> 15)
        @@ ("A" :> 10) @@ ("B" :> 11) @@ ("C" :> 12) @@ ("D" :> 13) @@ ("E" :> 14) @@ ("F" :> 15)

\* whether c is a digit of the base
IsDigit(c, base) == c \in DOMAIN HexDigitValue /\ HexDigitValue[c] < base

RECURSIVE StrNat(_)
\* str(n) for n >= 0
StrNat(n) ==
    IF n < 10 THEN <<Digits[n + 1]>>
    ELSE StrNat(n \div 10) \o <<Digits[(n % 10) + 1]>>

\* str(v) for an int
StrInt(v) == IF v < 0 THEN <<"-">> \o StrNat(-v) ELSE StrNat(v)

\* str(b) for a bool
StrBool(b) == IF b THEN <<"T", "r", "u", "e">> ELSE <<"F", "a", "l", "s", "e">>

RECURSIVE LStrip(_)
LStrip(s) ==
    IF s # <<>> /\ Head(s) \in Whitespace THEN LStrip(Tail(s)) ELSE s

RECURSIVE RStrip(_)
RStrip(s) ==
    IF s # <<>> /\ s[Len(s)] \in Whitespace
    THEN RStrip(SubSeq(s, 1, Len(s) - 1))
    ELSE s

\* s.strip()
Strip(s) == RStrip(LStrip(s))

RECURSIVE DigitsValue(_, _, _)
\* the number the digits s spell in the base, after the digits spelling acc
DigitsValue(s, base, acc) ==
    IF s = <<>> THEN acc
    ELSE DigitsValue(Tail(s), base, acc * base + HexDigitValue[Head(s)])

\* the digits of a literal: at least one, all of the base, else ValueError
\* (ok is FALSE)
ParseDigits(d, base) ==
    IF d # <<>> /\ \A i \in 1..Len(d) : IsDigit(d[i], base)
    THEN [ok |-> TRUE, value |-> DigitsValue(d, base, 0)]
    ELSE [ok |-> FALSE, value |-> 0]

\* a literal after its sign: base 16 allows a 0x prefix
ParseUnsigned(u, base) ==
    IF base = 16 /\ Len(u) >= 2 /\ u[1] = "0" /\ u[2] \in {"x", "X"}
    THEN ParseDigits(SubSeq(u, 3, Len(u)), base)
    ELSE ParseDigits(u, base)

Negated(r) == [ok |-> r.ok, value |-> -r.value]

\* a literal without surrounding white space: an optional sign first
ParseSigned(t, base) ==
    IF t # <<>> /\ Head(t) = "-" THEN Negated(ParseUnsigned(Tail(t), base))
    ELSE IF t # <<>> /\ Head(t) = "+" THEN ParseUnsigned(Tail(t), base)
    ELSE ParseUnsigned(t, base)

\* int(s, base) of python 2 for base 10 and 16: surrounding white space, a
\* sign, for base 16 a 0x prefix, then at least one digit.  ok is FALSE where
\* python raises ValueError.
ParseInt(s, base) == ParseSigned(Strip(s), base)

RECURSIVE Spaces(_)
Spaces(n) == IF n <= 0 THEN <<>> ELSE <<" ">> \o Spaces(n - 1)

\* '%-16s' % k
Pad16(k) == k \o Spaces(16 - Len(k))


(***************************************************************************)
(* Payloads.  A written value is a python str (FUSE write) or a python int *)
(* (the defaults that reset writes).                                       *)
(***************************************************************************)
StrData(s) == [t |-> "str", s |-> s, v |-> 0]

IntData(v) == [t |-> "int", s |-> <<>>, v |-> v]

\* str(data)
StrOf(data) == IF data.t = "str" THEN data.s ELSE StrInt(data.v)

Min(a, b) == IF a <= b THEN a ELSE b

Max(a, b) == IF a >= b THEN a ELSE b

(***************************************************************************)
(* The device.  A device class is the set of attributes hasattr finds on   *)
(* it, with the values the info file reports.                              *)
(***************************************************************************)
OptionalAttrs == {"brightness", "contrast", "set_leds", "is_locked", "get_keypad_map"}

DummyKeypadState == 9

DummyVersion == 42

DummyHeight == 4

DummyWidth == 20

DummyName == <<"D", "u", "m", "m", "y", "D", "e", "v", "i", "c", "e">>

DummyDevice ==
    [name |-> DummyName, attrs |-> {"brightness", "contrast"},
     height |-> DummyHeight, width |-> DummyWidth, version |-> DummyVersion,
     keypad_map |-> <<>>]

\* the attributes that decide which optional files exist
FileAttrs == {"brightness", "contrast", "set_leds", "is_locked"}

GenericName(attrs) ==
    IF attrs = {} THEN <<"L", "C", "D", "0", "3">>
    ELSE IF attrs = {"brightness", "contrast"} THEN <<"L", "C", "D", "0", "5">>
    ELSE <<"P", "a", "n", "e", "l">>

\* keypad maps a device class may provide: 12 slots, a key code or None each
PanelMap ==
    <<"KEY_ESC", "KEY_OK", "KEY_PREVIOUS", "KEY_NEXT",
      "None", "None", "None", "None", "None", "None", "None", "None">>

SparseMap ==
    <<"None", "KEY_UP", "KEY_DOWN", "None",
      "None", "None", "None", "None", "None", "None", "None", "None">>

DeviceMaps == {PanelMap, SparseMap}

\* a device class of the LCD library: the attributes it has and, when it has
\* get_keypad_map, the map that returns
GenericDevice(attrs, map) ==
    [name |-> GenericName(attrs),
     attrs |-> attrs \cup (IF map = <<>> THEN {} ELSE {"get_keypad_map"}),
     height |-> 4, width |-> 20, version |-> 1, keypad_map |-> map]

\* the device classes of the file system runs
Devices ==
    {DummyDevice} \cup {GenericDevice(a, <<>>) : a \in SUBSET FileAttrs}

\* the device classes of the keypad monitor runs
MonitorDevices ==
    {DummyDevice, GenericDevice({}, <<>>)}
        \cup {GenericDevice(FileAttrs, m) : m \in DeviceMaps}

(***************************************************************************)
(* State.                                                                  *)
(***************************************************************************)
VARIABLES
    device,                 \* terminal.device.__class__ and its constants
    no_splash,              \* LCDFSOperations.no_splash
    dev,                    \* the state of the device
    term,                   \* what the ANSI terminal was last asked to do
    data,                   \* _content[name].handler.data
    mtime,                  \* _content[name].mtime
    atime,                  \* _content[name].atime
    dir_entries,            \* _dir_entries
    fd,                     \* _fd
    kp_monitor_thread,      \* _kp_monitor_thread: "None" or "started"
    kp_monitor_terminate,   \* _kp_monitor_terminate
    mon,                    \* the monitor thread: its position and locals
    now,                    \* time.time()
    ret,                    \* what the last file system call returned or raised
    target                  \* the path the client process works on

\* ret under the kind of return it records (the call, the errno, whether it
\* is None): two returns of one kind hold values of one type
RetView == [k \in {<<ret.op, ret.err, ret.none>>} |-> ret]

vars ==
    <<device, no_splash, dev, term, data, mtime, atime, dir_entries, fd,
      kp_monitor_thread, kp_monitor_terminate, mon, now, RetView, target>>

\* hasattr(dev_class, attr)
hasattr(attr) == attr \in device.attrs

\* device.get_keypad_state(): the dummy device returns a constant
get_keypad_state(d) ==
    IF device.name = DummyName THEN DummyKeypadState ELSE d.keypad

\* device.is_locked()
is_locked(d) == d.locked

(***************************************************************************)
(* File handlers.  fs is the part of the state a handler reads and         *)
(* changes: [data, dev, term].                                             *)
(***************************************************************************)
FS == [data |-> data, dev |-> dev, term |-> term]

\* the handler classes that define do_write
Writable == {"backlight", "brightness", "contrast", "leds", "display"}

\* FileHandler.is_read_only: do_write is None
is_read_only(name) == name \notin Writable

\* FHLevelParameter.min_level
min_level == 0

\* FHLevelParameter.max_level, overridden by FHBackLight
max_level(name) == IF name = "backlight" THEN 1 ELSE 255

\* a normalize_level that forgets the upper end of the range
ClampFromBelow(name, value) == Max(value, min_level)

\* the last line of normalize_level
Clamp(name, value) == Min(max_level(name), Max(value, min_level))

ClampParsed(name, r) == [ok |-> r.ok, value |-> Clamp(name, r.value)]

\* a text level: int(s), and int(s, 16) when that raises ValueError
NormalizeText(name, s, dec) ==
    IF dec.ok THEN ClampParsed(name, dec) ELSE ClampParsed(name, ParseInt(s, 16))

\* FHLevelParameter.normalize_level: ok is FALSE where it raises ValueError
normalize_level(name, level) ==
    IF level.t = "int" THEN [ok |-> TRUE, value |-> Clamp(name, level.v)]
    ELSE NormalizeText(name, Strip(level.s), ParseInt(Strip(level.s), 10))

\* ANSITerm.process_sequence(data) and write_at(...): the terminal keeps the
\* last MaxTerm requests
TermAsk(t, req) ==
    IF Len(t) < MaxTerm THEN Append(t, req) ELSE Append(Tail(t), req)

\* do_write raised ValueError before it reached the device
ValueError(fs) == [ok |-> FALSE, fs |-> fs, value |-> 0, exc |-> "ValueError"]

\* the setter of the device raised: an error of the device or its transport
DeviceError(fs) == [ok |-> FALSE, fs |-> fs, value |-> 0, exc |-> "DeviceError"]

\* device.set_brightness(level); return level
set_brightness(fs, level) ==
    IF ~level.ok THEN ValueError(fs)
    ELSE IF fs.dev.failing THEN DeviceError(fs)
    ELSE [ok |-> TRUE, value |-> level.value,
          fs |-> [fs EXCEPT !.dev.brightness = <<level.value>>]]

\* device.set_contrast(level); return level
set_contrast(fs, level) ==
    IF ~level.ok THEN ValueError(fs)
    ELSE IF fs.dev.failing THEN DeviceError(fs)
    ELSE [ok |-> TRUE, value |-> level.value,
          fs |-> [fs EXCEPT !.dev.contrast = <<level.value>>]]

\* device.set_backlight(bool(level)); return level
set_backlight(fs, level) ==
    IF ~level.ok THEN ValueError(fs)
    ELSE IF fs.dev.failing THEN DeviceError(fs)
    ELSE [ok |-> TRUE, value |-> level.value,
          fs |-> [fs EXCEPT !.dev.backlight = <<level.value # 0>>]]

\* device.set_leds_state(data); return data
set_leds_state(fs, n) ==
    IF ~n.ok THEN ValueError(fs)
    ELSE IF fs.dev.failing THEN DeviceError(fs)
    ELSE [ok |-> TRUE, value |-> n.value,
          fs |-> [fs EXCEPT !.dev.leds = <<n.value>>]]

\* FHBrightness.do_write
FHBrightness_do_write(fs, d) == set_brightness(fs, normalize_level("brightness", d))

\* FHContrast.do_write
FHContrast_do_write(fs, d) == set_contrast(fs, normalize_level("contrast", d))

\* FHBackLight.do_write: the device gets bool(level)
FHBackLight_do_write(fs, d) == set_backlight(fs, normalize_level("backlight", d))

\* FHLeds.do_write: int(data), no clamping
FHLeds_do_write(fs, d) ==
    IF d.t = "int" THEN set_leds_state(fs, [ok |-> TRUE, value |-> d.v])
    ELSE set_leds_state(fs, ParseInt(d.s, 10))

\* a do_write that sends the bytes to the ANSI engine twice
FHDisplay_do_write_twice(fs, d) ==
    [ok |-> TRUE, value |-> Len(d.s),
     fs |-> [fs EXCEPT !.term =
                TermAsk(TermAsk(@, [op |-> "process_sequence", data |-> d.s]),
                        [op |-> "process_sequence", data |-> d.s])]]

\* FHDisplay.do_write: the bytes go to the ANSI engine, the length comes back
FHDisplay_do_write(fs, d) ==
    [ok |-> TRUE, value |-> Len(d.s),
     fs |-> [fs EXCEPT !.term = TermAsk(@, [op |-> "process_sequence", data |-> d.s])]]

do_write(name, fs, d) ==
    CASE name = "brightness" -> FHBrightness_do_write(fs, d)
      [] name = "contrast" -> FHContrast_do_write(fs, d)
      [] name = "backlight" -> FHBackLight_do_write(fs, d)
      [] name = "leds" -> FHLeds_do_write(fs, d)
      [] name = "display" -> FHDisplay_do_write(fs, d)

\* a write that caches the text it was given even when do_write failed
WriteCache_of_any_text(name, d, w) ==
    IF ~w.ok
    THEN [err |-> "", value |-> 0, fs |-> [w.fs EXCEPT !.data[name] = StrOf(d)]]
    ELSE [err |-> "", value |-> Len(StrOf(d)),
          fs |-> [w.fs EXCEPT !.data[name] = StrInt(w.value)]]

\* a write that takes every exception of do_write as a ValueError
WriteCache_catching_all(name, d, w) ==
    IF ~w.ok
    THEN [err |-> "", value |-> 0, fs |-> w.fs]
    ELSE [err |-> "", value |-> Len(StrOf(d)),
          fs |-> [w.fs EXCEPT !.data[name] = StrInt(w.value)]]

\* the try of FileHandler.write: ValueError gives 0 and leaves the cache, any
\* other exception goes up and leaves the cache, else the cache is str(what
\* do_write returned) and len(str(data)) is returned
WriteCache(name, d, w) ==
    IF ~w.ok
    THEN [err |-> IF w.exc = "ValueError" THEN "" ELSE w.exc, value |-> 0, fs |-> w.fs]
    ELSE [err |-> "", value |-> Len(StrOf(d)),
          fs |-> [w.fs EXCEPT !.data[name] = StrInt(w.value)]]

\* FileHandler.write: err is the errno raised ("" when none), value the
\* returned count, fs the state it leaves
FileHandler_write(name, fs, d) ==
    IF is_read_only(name)
    THEN [err |-> "EACCES", value |-> 0, fs |-> fs]
    ELSE WriteCache(name, d, do_write(name, fs, d))

\* self.data = str(...) of FHKeys and FHLocked
Refresh(name, fs, s) == [fs EXCEPT !.data[name] = s]

\* FHKeys.size
FHKeys_size(fs, s) == [value |-> Len(s) + 1, fs |-> Refresh("keys", fs, s)]

\* FileHandler.read once the cache is what it should be
ReadCache(name, fs) == [value |-> fs.data[name] \o <<"\n">>, fs |-> fs]

\* a size that counts the cached text and forgets the newline read appends
FileHandler_size_of_cache(name, fs) == [value |-> Len(fs.data[name]), fs |-> fs]

\* handler.size: FHKeys refreshes its cache from the device, FHLocked
\* answers 2, FHInfo the length of its text, the others len(data) + 1
FileHandler_size(name, fs) ==
    CASE name = "keys" -> FHKeys_size(fs, StrInt(get_keypad_state(fs.dev)))
      [] name = "locked" -> [value |-> 2, fs |-> fs]
      [] name = "info" -> [value |-> Len(fs.data["info"]), fs |-> fs]
      [] OTHER -> [value |-> Len(fs.data[name]) + 1, fs |-> fs]

\* a read that trusts the cache of every handler
FileHandler_read_of_cache(name, fs) ==
    IF name = "info" THEN [value |-> fs.data["info"], fs |-> fs]
    ELSE ReadCache(name, fs)

\* handler.read: FHKeys and FHLocked refresh their cache from the device,
\* FHInfo returns its text, the others data + '\n'
FileHandler_read(name, fs) ==
    CASE name = "keys" ->
            ReadCache(name, Refresh(name, fs, StrInt(get_keypad_state(fs.dev))))
      [] name = "locked" ->
            ReadCache(name, Refresh(name, fs, StrInt(IF is_locked(fs.dev) THEN 1 ELSE 0)))
      [] name = "info" -> [value |-> fs.data["info"], fs |-> fs]
      [] OTHER -> ReadCache(name, fs)

\* FHInfo.__init__: the text of the info file
InfoLine(k, v) == Pad16(k) \o <<" ", ":", " ">> \o v \o <<"\n">>

\* an info text whose locked line tells whether the device has LEDs
FHInfo_data_locked_of_leds ==
    InfoLine(<<"r", "o", "w", "s">>, StrInt(device.height))
        \o InfoLine(<<"c", "o", "l", "s">>, StrInt(device.width))
        \o InfoLine(<<"m", "o", "d", "e", "l">>, device.name)
        \o InfoLine(<<"v", "e", "r", "s", "i", "o", "n">>, StrInt(device.version))
        \o InfoLine(<<"b", "r", "i", "g", "h", "t", "n", "e", "s", "s">>,
                    StrBool(hasattr("brightness")))
        \o InfoLine(<<"c", "o", "n", "t", "r", "a", "s", "t">>,
                    StrBool(hasattr("contrast")))
        \o InfoLine(<<"l", "o", "c", "k", "e", "d">>, StrBool(hasattr("set_leds")))

FHInfo_data ==
    InfoLine(<<"r", "o", "w", "s">>, StrInt(device.height))
        \o InfoLine(<<"c", "o", "l", "s">>, StrInt(device.width))
        \o InfoLine(<<"m", "o", "d", "e", "l">>, device.name)
        \o InfoLine(<<"v", "e", "r", "s", "i", "o", "n">>, StrInt(device.version))
        \o InfoLine(<<"b", "r", "i", "g", "h", "t", "n", "e", "s", "s">>,
                    StrBool(hasattr("brightness")))
        \o InfoLine(<<"c", "o", "n", "t", "r", "a", "s", "t">>,
                    StrBool(hasattr("contrast")))
        \o InfoLine(<<"l", "o", "c", "k", "e", "d">>, StrBool(hasattr("is_locked")))

(***************************************************************************)
(* LCDFSOperations: construction, reset, path lookup.                      *)
(***************************************************************************)
\* _file_timestamp: the clock starts at the time the module is loaded
file_timestamp == 0

AlwaysPresent == {"backlight", "keys", "display", "info"}

\* (attribute looked for on the device class, file created when it is there)
OptionalFiles ==
    <<[attr |-> "brightness", fname |-> "brightness"],
      [attr |-> "contrast", fname |-> "contrast"],
      [attr |-> "set_leds", fname |-> "leds"],
      [attr |-> "is_locked", fname |-> "locked"]>>

AllNames == AlwaysPresent \cup {OptionalFiles[i].fname : i \in 1..4}

\* a directory with every optional file, whatever the device class has
ContentNames_of_every_class ==
    AlwaysPresent \cup {OptionalFiles[i].fname : i \in 1..4}

\* the keys of _content after __init__
ContentNames ==
    AlwaysPresent \cup {OptionalFiles[i].fname : i \in {j \in 1..4 : hasattr(OptionalFiles[j].attr)}}

RECURSIVE SeqOfSet(_)
\* the elements of a set in some order (a dict's keys())
SeqOfSet(S) ==
    IF S = {} THEN <<>>
    ELSE LET x == CHOOSE y \in S : TRUE IN <<x>> \o SeqOfSet(S \ {x})

\* DEFAULT_CONTENTS
DEFAULT_CONTENTS ==
    <<[file_name |-> "backlight", value |-> 1],
      [file_name |-> "brightness", value |-> 255],
      [file_name |-> "contrast", value |-> 255],
      [file_name |-> "leds", value |-> 0]>>

RECURSIVE ResetDefaults(_, _)
\* after a write of the loop of reset: a FuseOSError ends the loop and is
\* raised again
ResetNext(w, i) ==
    IF w.err # "" THEN [err |-> w.err, fs |-> w.fs] ELSE ResetDefaults(w.fs, i)

\* what a write of reset leaves: the errno it raised, the state
Outcome(w) == [err |-> w.err, fs |-> w.fs]

\* the loop of reset over DEFAULT_CONTENTS from item i on: a missing file is
\* skipped (KeyError)
ResetDefaults(fs, i) ==
    IF i > Len(DEFAULT_CONTENTS) THEN [err |-> "", fs |-> fs]
    ELSE IF DEFAULT_CONTENTS[i].file_name \notin DOMAIN fs.data
    THEN ResetDefaults(fs, i + 1)
    ELSE ResetNext(FileHandler_write(DEFAULT_CONTENTS[i].file_name, fs,
                                     IntData(DEFAULT_CONTENTS[i].value)), i + 1)

\* the end of reset: a form feed to the display
ResetDisplay(r) ==
    IF r.err # "" THEN r ELSE Outcome(FileHandler_write("display", r.fs, StrData(<<"\f">>)))

\* a reset that ends by inverting the backlight the device had
reset_inverting_backlight(fs) ==
    Outcome(FileHandler_write("backlight", ResetDisplay(ResetDefaults(fs, 1)).fs,
                              IntData(IF fs.dev.backlight = <<TRUE>> THEN 0 ELSE 1)))

\* LCDFSOperations.reset: the defaults, then the display is cleared
reset(fs) == ResetDisplay(ResetDefaults(fs, 1))

\* a path is "/" followed by at most one name: <<"/">>, <<"/", "keys">>
\* _get_descriptor: the name looked up in _content, the leading / removed
PathName(path) ==
    LET p == IF path # <<>> /\ Head(path) = "/" THEN Tail(path) ELSE path
    IN  IF p = <<>> THEN "" ELSE p[1]

\* _get_descriptor raises KeyError
KeyError(path) == PathName(path) \notin DOMAIN data

\* the state of a device nothing has been sent to
DeviceAtStart ==
    [backlight |-> <<>>, brightness |-> <<>>, contrast |-> <<>>, leds |-> <<>>,
     keypad |-> 0, locked |-> FALSE, failing |-> FALSE]

\* the monitor thread before it is started
MonitorAtStart ==
    [pc |-> "none", keypad_map |-> <<>>, keypad_mask |-> 0, last_state |-> <<>>,
     cap |-> {}, ui |-> "none", events |-> <<>>, ui_keys |-> {}]

\* ret before any call: the call made (op, path, arg), the errno it raised
\* ("" when none), whether it returned None, the value it returned
NoReturn ==
    [op |-> "", path |-> <<>>, arg |-> <<>>, err |-> "", none |-> TRUE, value |-> <<>>]

\* the handlers before reset: data = '' but for the info file
FreshFiles(names) ==
    [data |-> [n \in names |-> IF n = "info" THEN FHInfo_data ELSE <<>>],
     dev |-> DeviceAtStart, term |-> <<>>]

\* the state __init__ leaves, fs being what its call of reset leaves
Constructed(names, fs) ==
    /\ data = fs.data
    /\ dev = fs.dev
    /\ term = fs.term
    /\ mtime = [n \in names |-> file_timestamp]
    /\ atime = [n \in names |-> file_timestamp]
    /\ dir_entries = <<".", "..">> \o SeqOfSet(names)
    /\ fd = 0
    /\ kp_monitor_thread = "None"
    /\ kp_monitor_terminate = FALSE
    /\ mon = MonitorAtStart
    /\ now = file_timestamp
    /\ ret = NoReturn

\* LCDFSOperations.__init__ on a device of Devs with no_splash of Splash, for
\* a client working on a path of Ps
Construct(Devs, Ps, Splash) ==
    /\ device \in Devs
    /\ no_splash \in Splash
    /\ target \in Ps
    /\ Constructed(ContentNames, reset(FreshFiles(ContentNames)).fs)

(***************************************************************************)
(* The FUSE operations.  Each leaves in ret what it returned or raised.    *)
(***************************************************************************)
Return(op, path, arg, value) ==
    [op |-> op, path |-> path, arg |-> arg, err |-> "", none |-> FALSE, value |-> value]

ReturnNone(op, path, arg) ==
    [op |-> op, path |-> path, arg |-> arg, err |-> "", none |-> TRUE, value |-> <<>>]

Raise(op, path, arg, errno) ==
    [op |-> op, path |-> path, arg |-> arg, err |-> errno, none |-> TRUE, value |-> <<>>]

monitor_vars == <<kp_monitor_thread, kp_monitor_terminate, mon>>

const_vars == <<device, no_splash, dir_entries, target>>

\* the stat of the root directory
RootStat ==
    [st_uid |-> "uid", st_gid |-> "gid", st_ctime |-> file_timestamp,
     st_atime |-> file_timestamp, st_mtime |-> file_timestamp,
     st_nlink |-> 2, st_mode |-> <<"S_IFDIR", "0755">>]

\* the stat of a file: st_atime stays the one of the initial dict
FileStat(name, size) ==
    [st_uid |-> "uid", st_gid |-> "gid", st_ctime |-> file_timestamp,
     st_atime |-> file_timestamp, st_mtime |-> mtime[name],
     st_nlink |-> 1,
     st_mode |-> <<"S_IFREG", IF is_read_only(name) THEN "0444" ELSE "0666">>,
     st_size |-> size,
     st_blocks |-> (size + 511) \div 512]

\* the try of getattr: the stat of the file, the size from its handler
getattr_file(path, name, s) ==
    /\ ret' = Return("getattr", path, <<>>, FileStat(name, s.value))
    /\ data' = s.fs.data

\* LCDFSOperations.getattr
getattr(path) ==
    /\ IF path = <<"/">>
       THEN /\ ret' = Return("getattr", path, <<>>, RootStat)
            /\ UNCHANGED data
       ELSE IF KeyError(path)
       THEN /\ ret' = Raise("getattr", path, <<>>, "ENOENT")
            /\ UNCHANGED data
       ELSE getattr_file(path, PathName(path), FileHandler_size(PathName(path), FS))
    /\ UNCHANGED <<dev, term, mtime, atime, fd, now>>
    /\ UNCHANGED monitor_vars
    /\ UNCHANGED const_vars

\* LCDFSOperations.readdir
readdir(path) ==
    /\ ret' = Return("readdir", path, <<>>, dir_entries)
    /\ UNCHANGED <<dev, term, data, mtime, atime, fd, now>>
    /\ UNCHANGED monitor_vars
    /\ UNCHANGED const_vars

\* LCDFSOperations.chmod
chmod(path) ==
    /\ ret' = ReturnNone("chmod", path, <<>>)
    /\ UNCHANGED <<dev, term, data, mtime, atime, fd, now>>
    /\ UNCHANGED monitor_vars
    /\ UNCHANGED const_vars

\* an open that hands out the next handle without keeping count of it
open_not_counting(path) ==
    /\ fd < MaxOpen
    /\ ret' = Return("open", path, <<>>, fd + 1)
    /\ UNCHANGED <<dev, term, data, mtime, atime, now, fd>>
    /\ UNCHANGED monitor_vars
    /\ UNCHANGED const_vars

\* LCDFSOperations.open: the path is not looked at
open(path) ==
    /\ fd < MaxOpen
    /\ fd' = fd + 1
    /\ ret' = Return("open", path, <<>>, fd + 1)
    /\ UNCHANGED <<dev, term, data, mtime, atime, now>>
    /\ UNCHANGED monitor_vars
    /\ UNCHANGED const_vars

\* the else of read: atime is set, then None when the offset is not below
\* handler.size, else all of handler.read()
read_file(path, name, size, offset, s) ==
    /\ atime' = [atime EXCEPT ![name] = now]
    /\ IF offset >= s.value
       THEN /\ ret' = ReturnNone("read", path, <<size, offset>>)
            /\ data' = s.fs.data
       ELSE /\ ret' = Return("read", path, <<size, offset>>,
                             FileHandler_read(name, s.fs).value)
            /\ data' = FileHandler_read(name, s.fs).fs.data

\* LCDFSOperations.read: size and offset only decide between None and the
\* whole of what the handler reads
read(path, size, offset) ==
    /\ IF KeyError(path)
       THEN /\ ret' = Raise("read", path, <<size, offset>>, "ENOENT")
            /\ UNCHANGED <<data, atime>>
       ELSE read_file(path, PathName(path), size, offset,
                      FileHandler_size(PathName(path), FS))
    /\ UNCHANGED <<dev, term, mtime, fd, now>>
    /\ UNCHANGED monitor_vars
    /\ UNCHANGED const_vars

\* a write that stamps the entry before it asks the handler
write_file_stamped_first(path, name, d, w) ==
    /\ ret' = IF w.err # "" THEN Raise("write", path, d, w.err)
              ELSE Return("write", path, d, w.value)
    /\ dev' = w.fs.dev
    /\ term' = w.fs.term
    /\ data' = w.fs.data
    /\ mtime' = [mtime EXCEPT ![name] = now]

\* the else of write: what the handler raises is raised, else mtime is set
\* and what it returned is returned
write_file(path, name, d, w) ==
    IF w.err # ""
    THEN /\ ret' = Raise("write", path, d, w.err)
         /\ UNCHANGED <<dev, term, data, mtime>>
    ELSE /\ ret' = Return("write", path, d, w.value)
         /\ dev' = w.fs.dev
         /\ term' = w.fs.term
         /\ data' = w.fs.data
         /\ mtime' = [mtime EXCEPT ![name] = now]

\* LCDFSOperations.write: the offset is ignored; mtime is set whenever the
\* handler returns
write(path, d) ==
    /\ IF KeyError(path)
       THEN /\ ret' = Raise("write", path, d, "ENOENT")
            /\ UNCHANGED <<dev, term, data, mtime>>
       ELSE write_file(path, PathName(path), d,
                       FileHandler_write(PathName(path), FS, StrData(d)))
    /\ UNCHANGED <<atime, fd, now>>
    /\ UNCHANGED monitor_vars
    /\ UNCHANGED const_vars

\* LCDFSOperations.truncate
truncate(path, length) ==
    /\ ret' = Return("truncate", path, <<length>>, length)
    /\ UNCHANGED <<dev, term, data, mtime, atime, fd, now>>
    /\ UNCHANGED monitor_vars
    /\ UNCHANGED const_vars

\* a utimens that stamps every entry of the directory
utimens_file_stamping_all(path, name, times, t) ==
    /\ ret' = ReturnNone("utimens", path, times)
    /\ atime' = [n \in DOMAIN atime |-> t[1]]
    /\ mtime' = [n \in DOMAIN mtime |-> t[2]]

\* the else of utimens
utimens_file(path, name, times, t) ==
    /\ ret' = ReturnNone("utimens", path, times)
    /\ atime' = [atime EXCEPT ![name] = t[1]]
    /\ mtime' = [mtime EXCEPT ![name] = t[2]]

\* LCDFSOperations.utimens: times is <<>> (None) or <<atime, mtime>>
utimens(path, times) ==
    /\ IF KeyError(path)
       THEN /\ ret' = Raise("utimens", path, times, "ENOENT")
            /\ UNCHANGED <<atime, mtime>>
       ELSE utimens_file(path, PathName(path), times,
                         IF times # <<>> THEN times ELSE <<now, now>>)
    /\ UNCHANGED <<dev, term, data, fd, now>>
    /\ UNCHANGED monitor_vars
    /\ UNCHANGED const_vars

\* LCDFSOperations.init: the splash screen unless disabled, then the monitor
\* thread is started
init(path) ==
    /\ kp_monitor_thread = "None"
    /\ term' = IF no_splash THEN term
               ELSE TermAsk(TermAsk(term, [op |-> "write_at", data |-> <<"host", 1, 1>>]),
                            [op |-> "write_at", data |-> <<"ip", 2, 1>>])
    /\ kp_monitor_thread' = "started"
    /\ mon' = [mon EXCEPT !.pc = "start"]
    /\ ret' = ReturnNone("init", path, <<>>)
    /\ UNCHANGED <<dev, data, mtime, atime, fd, now, kp_monitor_terminate>>
    /\ UNCHANGED const_vars

\* an end of destroy that turns the backlight off before the reset
destroy_reset_backlight_first(path, r) ==
    /\ ret' = IF r.err # "" THEN Raise("destroy", path, <<>>, r.err)
              ELSE ReturnNone("destroy", path, <<>>)
    /\ dev' = r.fs.dev
    /\ term' = r.fs.term
    /\ data' = r.fs.data

\* the end of destroy: reset, then the backlight is turned off
destroy_reset(path, r) ==
    IF r.err # ""
    THEN /\ ret' = Raise("destroy", path, <<>>, r.err)
         /\ dev' = r.fs.dev
         /\ term' = r.fs.term
         /\ data' = r.fs.data
    ELSE /\ ret' = ReturnNone("destroy", path, <<>>)
         /\ dev' = [r.fs.dev EXCEPT !.backlight = <<FALSE>>]
         /\ term' = r.fs.term
         /\ data' = r.fs.data

\* a destroy that resets through the FUSE write, which stamps the entries
destroy_stamping(path) ==
    /\ kp_monitor_terminate' =
           IF kp_monitor_thread # "None" THEN TRUE ELSE kp_monitor_terminate
    /\ destroy_reset(path, reset(FS))
    /\ mtime' = [n \in DOMAIN mtime |-> IF is_read_only(n) THEN mtime[n] ELSE now]
    /\ UNCHANGED <<atime, fd, now, kp_monitor_thread, mon>>
    /\ UNCHANGED const_vars

\* LCDFSOperations.destroy: the monitor is told to stop and waited for at
\* most 1 s, the files are reset, the backlight is turned off
destroy(path) ==
    /\ kp_monitor_terminate' =
           IF kp_monitor_thread # "None" THEN TRUE ELSE kp_monitor_terminate
    /\ destroy_reset(path, reset(FS))
    /\ UNCHANGED <<mtime, atime, fd, now, kp_monitor_thread, mon>>
    /\ UNCHANGED const_vars

(***************************************************************************)
(* The keypad monitor thread (_kp_monitor_loop).                           *)
(***************************************************************************)
RECURSIVE BitAnd(_, _)
\* a & b for a, b >= 0
BitAnd(a, b) ==
    IF a = 0 \/ b = 0 THEN 0
    ELSE (a % 2) * (b % 2) + 2 * BitAnd(a \div 2, b \div 2)

RECURSIVE BitXor(_, _)
\* a ^ b for a, b >= 0
BitXor(a, b) ==
    IF a = 0 THEN b
    ELSE IF b = 0 THEN a
    ELSE ((a + b) % 2) + 2 * BitXor(a \div 2, b \div 2)

\* the map used when the device has no get_keypad_map
DefaultKeypadMap ==
    <<"KEY_NUMERIC_1", "KEY_NUMERIC_2", "KEY_NUMERIC_3",
      "KEY_NUMERIC_4", "KEY_NUMERIC_5", "KEY_NUMERIC_6",
      "KEY_NUMERIC_7", "KEY_NUMERIC_8", "KEY_NUMERIC_9",
      "KEY_NUMERIC_STAR", "KEY_NUMERIC_0", "KEY_NUMERIC_POUND">>

RECURSIVE KeypadMask(_, _, _)
\* the loop over reversed(keypad_map) from slot i down: the mask is shifted
\* left and gets a 1 for a slot that is not None
KeypadMask(map, i, mask) ==
    IF i < 1 THEN mask
    ELSE KeypadMask(map, i - 1, 2 * mask + (IF map[i] # "None" THEN 1 ELSE 0))

\* the key capability given to UInput
UInputKeys == {"KEY_PREVIOUS", "KEY_NEXT", "KEY_ESC", "KEY_OK"}

KeyEvent(code, value) == [type |-> "EV_KEY", code |-> code, value |-> value]

SynEvent == [type |-> "EV_SYN", code |-> "SYN_REPORT", value |-> 0]

RECURSIVE KeyEvents_state_not_shifted(_, _, _, _)
\* the loop without its state >>= 1: every event tells the state of slot 0
KeyEvents_state_not_shifted(map, i, state, changes_mask) ==
    IF i > Len(map) THEN <<>>
    ELSE (IF map[i] # "None" /\ changes_mask % 2 = 1
          THEN <<KeyEvent(map[i], IF state % 2 = 1 THEN 1 ELSE 0)>>
          ELSE <<>>)
         \o KeyEvents_state_not_shifted(map, i + 1, state, changes_mask \div 2)

RECURSIVE KeyEvents(_, _, _, _)
\* the loop over enumerate(keypad_map) from slot i on: an EV_KEY for a slot
\* that is not None and whose change bit is set, both masks shifted right
KeyEvents(map, i, state, changes_mask) ==
    IF i > Len(map) THEN <<>>
    ELSE (IF map[i] # "None" /\ changes_mask % 2 = 1
          THEN <<KeyEvent(map[i], IF state % 2 = 1 THEN 1 ELSE 0)>>
          ELSE <<>>)
         \o KeyEvents(map, i + 1, state \div 2, changes_mask \div 2)

\* thread start to UInput(cap, name='ctrl-panel'), the map being the one found
MonitorSetupWith(map) ==
    /\ mon.pc = "start"
    /\ mon' = [mon EXCEPT !.pc = "reset", !.keypad_map = map,
                          !.keypad_mask = KeypadMask(map, Len(map), 0),
                          !.cap = UInputKeys, !.ui = "open"]
    /\ UNCHANGED <<dev, term, data, mtime, atime, fd, now, ret>>
    /\ UNCHANGED <<kp_monitor_thread, kp_monitor_terminate>>
    /\ UNCHANGED const_vars

\* the map of the device, or the default one (AttributeError)
MonitorSetup ==
    IF hasattr("get_keypad_map") THEN MonitorSetupWith(device.keypad_map)
    ELSE MonitorSetupWith(DefaultKeypadMap)

\* last_state = None; self._kp_monitor_terminate = False
MonitorResetFlag ==
    /\ mon.pc = "reset"
    /\ mon' = [mon EXCEPT !.pc = "test", !.last_state = <<>>]
    /\ kp_monitor_terminate' = FALSE
    /\ UNCHANGED <<dev, term, data, mtime, atime, fd, now, ret>>
    /\ UNCHANGED kp_monitor_thread
    /\ UNCHANGED const_vars

\* while not self._kp_monitor_terminate
MonitorTest ==
    /\ mon.pc = "test"
    /\ mon' = [mon EXCEPT !.pc = IF kp_monitor_terminate THEN "close" ELSE "poll"]
    /\ UNCHANGED <<dev, term, data, mtime, atime, fd, now, ret>>
    /\ UNCHANGED <<kp_monitor_thread, kp_monitor_terminate>>
    /\ UNCHANGED const_vars

RECURSIVE UIWrite(_, _, _)
\* ui.write for the events from i on: the input device holds, for each key
\* code, the last value written for it; keys is the set of codes held at 1
UIWrite(keys, events, i) ==
    IF i > Len(events) THEN keys
    ELSE UIWrite(IF events[i].value = 1 THEN keys \cup {events[i].code}
                 ELSE keys \ {events[i].code},
                 events, i + 1)

\* if changes_mask: last_state = state, the events, ui.syn()
MonitorEmit(state, changes_mask) ==
    IF changes_mask # 0
    THEN [mon EXCEPT !.pc = "sleep", !.last_state = <<state>>,
                     !.events = KeyEvents(mon.keypad_map, 1, state, changes_mask)
                                    \o <<SynEvent>>,
                     !.ui_keys = UIWrite(@, KeyEvents(mon.keypad_map, 1, state,
                                                      changes_mask), 1)]
    ELSE [mon EXCEPT !.pc = "sleep", !.events = <<>>]

\* a monitor that takes every slot of the map as changed on its first
\* iteration, pressed or not
MonitorSample_all_changed(state) ==
    IF mon.last_state = <<>> THEN MonitorEmit(state, mon.keypad_mask)
    ELSE MonitorEmit(state, BitXor(mon.last_state[1], state))

\* changes_mask = state if last_state is None else last_state ^ state
MonitorSample(state) ==
    IF mon.last_state = <<>> THEN MonitorEmit(state, state)
    ELSE MonitorEmit(state, BitXor(mon.last_state[1], state))

\* the body of the loop: one sample and the events it gives
MonitorPoll ==
    /\ mon.pc = "poll"
    /\ mon' = MonitorSample(BitAnd(get_keypad_state(dev), mon.keypad_mask))
    /\ UNCHANGED <<dev, term, data, mtime, atime, fd, now, ret>>
    /\ UNCHANGED <<kp_monitor_thread, kp_monitor_terminate>>
    /\ UNCHANGED const_vars

\* time.sleep(0.1)
MonitorSleep ==
    /\ mon.pc = "sleep"
    /\ mon' = [mon EXCEPT !.pc = "test"]
    /\ UNCHANGED <<dev, term, data, mtime, atime, fd, now, ret>>
    /\ UNCHANGED <<kp_monitor_thread, kp_monitor_terminate>>
    /\ UNCHANGED const_vars

\* ui.close()
MonitorClose ==
    /\ mon.pc = "close"
    /\ mon' = [mon EXCEPT !.pc = "done", !.ui = "closed"]
    /\ UNCHANGED <<dev, term, data, mtime, atime, fd, now, ret>>
    /\ UNCHANGED <<kp_monitor_thread, kp_monitor_terminate>>
    /\ UNCHANGED const_vars

MonitorStep ==
    \/ MonitorSetup
    \/ MonitorResetFlag
    \/ MonitorTest
    \/ MonitorPoll
    \/ MonitorSleep
    \/ MonitorClose

(***************************************************************************)
(* The environment: time passes, keys are pressed and released, the panel  *)
(* is locked and unlocked.                                                 *)
(***************************************************************************)
Tick ==
    /\ now < MaxTime
    /\ now' = now + 1
    /\ UNCHANGED <<dev, term, data, mtime, atime, fd, ret>>
    /\ UNCHANGED monitor_vars
    /\ UNCHANGED const_vars

KeypadChange(k) ==
    /\ device.name # DummyName
    /\ dev.keypad # k
    /\ dev' = [dev EXCEPT !.keypad = k]
    /\ UNCHANGED <<term, data, mtime, atime, fd, now, ret>>
    /\ UNCHANGED monitor_vars
    /\ UNCHANGED const_vars

LockChange ==
    /\ hasattr("is_locked")
    /\ dev' = [dev EXCEPT !.locked = ~dev.locked]
    /\ UNCHANGED <<term, data, mtime, atime, fd, now, ret>>
    /\ UNCHANGED monitor_vars
    /\ UNCHANGED const_vars

\* the device or its transport starts to fail, or recovers
DeviceFault ==
    /\ dev' = [dev EXCEPT !.failing = ~dev.failing]
    /\ UNCHANGED <<term, data, mtime, atime, fd, now, ret>>
    /\ UNCHANGED monitor_vars
    /\ UNCHANGED const_vars

(***************************************************************************)
(* The inputs of the runs.                                                 *)
(***************************************************************************)
\* integers written as decimal text: around both ends of the two ranges
LevelProbe == {-1, 0, 1, 2, 255, 256}

\* other texts: hexadecimal, with white space, not a number, a form feed
OtherTexts ==
    {<<"f", "f">>, <<"0", "x", "f", "f">>, <<"1", "2", "\n">>,
     <<"x", "y", "z">>, <<>>, <<"\f">>}

Payloads == {StrInt(v) : v \in LevelProbe} \cup OtherTexts

\* the display takes any text as it is: a form feed, a line, nothing
DisplayTexts == {<<"\f">>, <<"1", "2", "\n">>, <<>>}

\* the payloads a client writes to a path
PayloadsFor(path) == IF PathName(path) = "display" THEN DisplayTexts ELSE Payloads

\* the paths a client may work on
Paths == {<<"/">>} \cup {<<"/", n>> : n \in AllNames \cup {"nosuch"}}

\* the offsets of the reads: 0..MaxOffset
MaxOffset == 3

ReadSizes == {1, 4096}

\* the times given to utimens: None, or a pair after the last clock value
UtimensTimes == {<<>>, <<MaxTime + 1, MaxTime + 2>>}

\* the keypad states seen by the file system runs
FileKeypadStates == {0, 10}

\* the dummy device, a device with no optional attribute, one with them all
FileDevices == {DummyDevice, GenericDevice({}, <<>>), GenericDevice(FileAttrs, <<>>)}

(***************************************************************************)
(* The file system: a client works on one path of a mount.                 *)
(***************************************************************************)
Init == Construct(FileDevices, Paths, {TRUE})

\* the keypad and the lock are read through keys and locked only: they move
\* when the client works on the file that shows them

Next ==
    \/ getattr(target)
    \/ \E size \in ReadSizes, offset \in 0..MaxOffset : read(target, size, offset)
    \/ \E d \in PayloadsFor(target) : write(target, d)
    \/ \E times \in UtimensTimes : utimens(target, times)
    \/ init(<<"/">>)
    \/ destroy(<<"/">>)
    \/ Tick
    \/ (PathName(target) = "keys" /\ \E k \in FileKeypadStates : KeypadChange(k))
    \/ (PathName(target) = "locked" /\ LockChange)

Spec == Init /\ [][Next]_vars

(***************************************************************************)
(* The directory and the life cycle of a mount, on every device class.     *)
(***************************************************************************)
InitDir == Construct(Devices, Paths, BOOLEAN)

NextDir ==
    \/ getattr(target)
    \/ readdir(<<"/">>)
    \/ open(target)
    \/ truncate(target, 0)
    \/ chmod(target)
    \/ read(target, 4096, 0)
    \/ write(target, <<"0">>)
    \/ utimens(target, <<>>)
    \/ init(<<"/">>)
    \/ destroy(<<"/">>)

SpecDir == InitDir /\ [][NextDir]_vars

(***************************************************************************)
(* The keypad monitor: init starts the thread, the keys change, destroy    *)
(* asks it to stop.  The thread is scheduled fairly in SpecMonFair.        *)
(***************************************************************************)
InitMon == Construct(MonitorDevices, {<<"/">>}, {TRUE})

NextMon ==
    \/ init(<<"/">>)
    \/ destroy(<<"/">>)
    \/ MonitorSetup
    \/ MonitorResetFlag
    \/ MonitorTest
    \/ MonitorPoll
    \/ MonitorSleep
    \/ MonitorClose
    \/ \E k \in 0..MaxKeypad : KeypadChange(k)

SpecMon == InitMon /\ [][NextMon]_vars

SpecMonFair == SpecMon /\ WF_vars(MonitorStep)

(***************************************************************************)
(* The file system over a device that fails now and then: a client works   *)
(* on one path while the setters of the device raise or not.               *)
(***************************************************************************)
InitFault == Construct(FileDevices, Paths, {TRUE})

NextFault ==
    \/ getattr(target)
    \/ read(target, 4096, 0)
    \/ \E d \in PayloadsFor(target) : write(target, d)
    \/ destroy(<<"/">>)
    \/ Tick
    \/ DeviceFault

SpecFault == InitFault /\ [][NextFault]_vars

(***************************************************************************)
(* Properties.                                                             *)
(***************************************************************************)
\* the file the client works on, when it is an entry of the directory
TargetName == PathName(target)

LevelFiles == {"backlight", "brightness", "contrast"}

\* the decimal text of each probed integer, written out
DecimalText ==
    (-1 :> <<"-", "1">>) @@ (0 :> <<"0">>) @@ (1 :> <<"1">>) @@ (2 :> <<"2">>)
        @@ (255 :> <<"2", "5", "5">>) @@ (256 :> <<"2", "5", "6">>)

\* min(max(v, 0), max_level) with max_level 1 for backlight, 255 otherwise
Clamped(name, v) ==
    IF v < 0 THEN 0
    ELSE IF name = "backlight" THEN (IF v > 1 THEN 1 ELSE v)
    ELSE IF v > 255 THEN 255 ELSE v

\* the value the setter of a level file was last called with, as an integer
SetterValue(name) ==
    CASE name = "backlight" -> IF dev.backlight = <<TRUE>> THEN 1 ELSE 0
      [] name = "brightness" -> dev.brightness[1]
      [] name = "contrast" -> dev.contrast[1]

HandlerSize(e) == FileHandler_size(e, FS).value

ReadLength(e) == Len(FileHandler_read(e, FS).value)

\* a step of getattr: no other operation leaves "getattr" in ret without the
\* clock or the device changing
GetattrStep == ret'.op = "getattr" /\ now' = now /\ dev' = dev

\* C2: in every reachable state the size of the handler of every entry of
\* the directory is the length of what its read returns, and the st_size a
\* getattr reports is that size at the moment getattr returns.
C2_SizeIsReadLength ==
    /\ [](\A e \in DOMAIN data : HandlerSize(e) = ReadLength(e))
    /\ [][(GetattrStep /\ TargetName \in DOMAIN data)
            => /\ ret'.err = ""
               /\ ret'.value.st_size = HandlerSize(TargetName)'
               /\ ret'.value.st_size = ReadLength(TargetName)']_vars

\* getattr on keys while the keypad state is 10: st_size 3, the stale cache
\* of the start is refreshed
C2_Witness ==
    /\ ret.op = "getattr" /\ ret.err = ""
    /\ target = <<"/", "keys">>
    /\ get_keypad_state(dev) = 10
    /\ ret.value.st_size = 3
    /\ ReadLength("keys") = 3

ReadOnlyFiles == {"keys", "locked", "info"}

\* what handler.read() returns for an entry now
ReadValue(e) == FileHandler_read(e, FS).value

\* a step of write: no other operation leaves "write" in ret without the
\* clock, the keypad or the lock changing
WriteStep ==
    /\ ret'.op = "write"
    /\ now' = now
    /\ dev'.keypad = dev.keypad
    /\ dev'.locked = dev.locked

\* C3: a FUSE write of any payload to keys, locked or info fails with EACCES
\* and leaves what read returns for the entry, the mtime of every entry, the
\* device and the terminal as they were.
C3_ReadOnlyWriteRefused ==
    [][(WriteStep /\ TargetName \in ReadOnlyFiles \cap DOMAIN data)
        => /\ ret'.err = "EACCES"
           /\ ReadValue(TargetName)' = ReadValue(TargetName)
           /\ mtime' = mtime
           /\ dev' = dev
           /\ term' = term]_vars

\* a write to keys refused after the clock has moved, the keypad state 10
\* still read
C3_Witness ==
    /\ ret.op = "write" /\ ret.err = "EACCES"
    /\ target = <<"/", "keys">>
    /\ ret.arg = <<"2", "5", "5">>
    /\ now > 0 /\ mtime["keys"] = 0
    /\ ReadValue("keys") = <<"1", "0", "\n">>

\* the device attribute each optional file stands for
Capability ==
    [brightness |-> "brightness", contrast |-> "contrast",
     leds |-> "set_leds", locked |-> "is_locked"]

\* the optional files the device in use has no capability for
AbsentFiles == {n \in DOMAIN Capability : Capability[n] \notin device.attrs}

InListing(n) == \E i \in 1..Len(dir_entries) : dir_entries[i] = n

\* C4: an optional file (brightness, contrast, leds, locked) whose device
\* capability is absent is not listed by readdir, and getattr and open on
\* its path fail with ENOENT.
C4_AbsentFileNotFound ==
    \A n \in AbsentFiles :
        /\ ~InListing(n)
        /\ (ret.op = "readdir" => \A i \in 1..Len(ret.value) : ret.value[i] # n)
        /\ (ret.op \in {"getattr", "open"} /\ ret.path = <<"/", n>>
                => ret.err = "ENOENT")

\* C5: once init has started the keypad monitor and destroy has been called,
\* the monitor eventually leaves its polling loop and closes the virtual
\* input device, whatever the interleaving of its start-up steps with
\* destroy's setting of the termination flag.
C5_MonitorStopsAfterDestroy ==
    (ret.op = "destroy" /\ kp_monitor_thread = "started")
        ~> (mon.pc = "done" /\ mon.ui = "closed")

\* bit i (from 1) of n
Bit(n, i) == (n \div 2^(i - 1)) % 2

\* bit i of the sample the monitor takes now, masked: 0 for an absent slot
SampleBit(i) ==
    IF mon.keypad_map[i] = "None" THEN 0 ELSE Bit(get_keypad_state(dev), i)

\* slot i has changed: its bit is set on the first effective iteration,
\* differs from the one of the previous masked sample afterwards
SlotChanged(i) ==
    IF mon.last_state = <<>> THEN SampleBit(i) = 1
    ELSE SampleBit(i) # Bit(mon.last_state[1], i)

\* the slots that are not absent and have changed, in the order of the map
ChangedSlots ==
    SelectSeq([i \in 1..Len(mon.keypad_map) |-> i],
              LAMBDA i : mon.keypad_map[i] # "None" /\ SlotChanged(i))

\* one KEY event per changed slot, then one SYN when there is any
ExpectedEvents ==
    [j \in 1..Len(ChangedSlots) |->
        [type |-> "EV_KEY", code |-> mon.keypad_map[ChangedSlots[j]],
         value |-> SampleBit(ChangedSlots[j])]]
      \o (IF ChangedSlots = <<>> THEN <<>>
          ELSE <<[type |-> "EV_SYN", code |-> "SYN_REPORT", value |-> 0]>>)

\* C6: a sample of the monitor emits exactly one KEY event for each changed
\* bit whose slot is not absent, with the key code of the slot and value 1
\* if the bit is set in the sample and 0 otherwise, none for an unchanged
\* bit or an absent slot, and one SYN event after the KEY events; the
\* changed bits are the masked sample on the first effective iteration and
\* its XOR with the previous masked sample afterwards.
C6_EventsOfSample ==
    [][(mon.pc = "poll" /\ mon'.pc = "sleep")
        => mon'.events = ExpectedEvents]_vars

\* a sample after an earlier one: a key released, another pressed, then SYN
C6_Witness ==
    /\ mon.pc = "sleep"
    /\ Len(mon.events) = 3
    /\ mon.events[1].type = "EV_KEY" /\ mon.events[1].value = 0
    /\ mon.events[2].type = "EV_KEY" /\ mon.events[2].value = 1
    /\ mon.events[3].type = "EV_SYN"

\* the key codes of the slots of the map in use that are not absent
MapKeys ==
    {mon.keypad_map[i] : i \in {j \in 1..Len(mon.keypad_map) : mon.keypad_map[j] # "None"}}

\* the key codes of the KEY events of the last sample
EmittedKeys ==
    {mon.events[i].code : i \in {j \in 1..Len(mon.events) : mon.events[j].type = "EV_KEY"}}

\* C7: the key capability advertised for the virtual input device is the set
\* of the key codes of the map in use that are not absent, so the key code
\* of every KEY event emitted belongs to the advertised capability.
C7_CapabilityCoversMap ==
    mon.ui = "open" => (mon.cap = MapKeys /\ EmittedKeys \subseteq mon.cap)

\* the payloads written that the handler of a file cannot interpret: text
\* that is neither decimal nor hexadecimal for a level file, text that is
\* not a decimal integer for leds; display takes any text
Unparseable(name) ==
    CASE name \in LevelFiles -> {<<"x", "y", "z">>, <<>>, <<"\f">>}
      [] name = "leds" ->
            {<<"f", "f">>, <<"0", "x", "f", "f">>, <<"x", "y", "z">>, <<>>, <<"\f">>}
      [] OTHER -> {}

\* the handler of the target accepts the payload d
Accepted(d) ==
    /\ TargetName \in DOMAIN data
    /\ TargetName \notin ReadOnlyFiles
    /\ d \notin Unparseable(TargetName)

\* C8: a FUSE write sets the mtime of its target to the current time exactly
\* when the handler accepted the write; a write the handler rejects (parse
\* failure returning 0, EACCES, ENOENT) leaves the mtime of every entry
\* unchanged.
C8_MtimeOnlyWhenAccepted ==
    [][WriteStep
        => IF Accepted(ret'.arg)
           THEN mtime' = [mtime EXCEPT ![TargetName] = now]
           ELSE mtime' = mtime]_vars

\* C9: a write to a RW file of a payload its handler cannot interpret (text
\* that is not an integer to leds, text that is neither decimal nor
\* hexadecimal to a level file) returns 0 and leaves the cached text, what
\* read returns, the device and the terminal as they were: no setter acted.
C9_UnparseableWriteIgnored ==
    [][(/\ WriteStep
        /\ TargetName \in Writable \cap DOMAIN data
        /\ ret'.arg \in Unparseable(TargetName))
        => /\ ret'.err = "" /\ ~ret'.none /\ ret'.value = 0
           /\ data' = data
           /\ ReadValue(TargetName)' = ReadValue(TargetName)
           /\ dev' = dev
           /\ term' = term]_vars

\* hexadecimal text written to leds, or text that is no number written to
\* brightness: 0 is returned and the default is still cached
C9_Witness ==
    /\ ret.op = "write" /\ ret.err = "" /\ ret.value = 0
    /\ \/ /\ target = <<"/", "leds">> /\ ret.arg = <<"f", "f">>
          /\ data["leds"] = <<"0">> /\ dev.leds = <<0>>
       \/ /\ target = <<"/", "brightness">> /\ ret.arg = <<"x", "y", "z">>
          /\ data["brightness"] = <<"2", "5", "5">> /\ dev.brightness = <<255>>

\* a step of read: no other operation leaves "read" in ret without the
\* clock, the keypad or the lock changing
ReadStep ==
    /\ ret'.op = "read"
    /\ now' = now
    /\ dev'.keypad = dev.keypad
    /\ dev'.locked = dev.locked

\* payload[offset:offset+size]
Slice(payload, offset, size) ==
    SubSeq(payload, offset + 1, Min(offset + size, Len(payload)))

\* what read(size, offset) is to answer for an entry: nothing from the size
\* of the handler on, else the slice of the whole text
Served(name, size, offset) ==
    IF offset >= HandlerSize(name) THEN <<>>
    ELSE Slice(ReadValue(name), offset, size)

\* C10: a FUSE read of an existing entry returns nothing when the offset is
\* not below the size of the handler and payload[offset:offset+size]
\* otherwise, payload being the whole read value of the handler; in both
\* cases the atime of the entry becomes the current time.
C10_ReadServesSlice ==
    [][(ReadStep /\ TargetName \in DOMAIN data)
        => /\ ret'.err = ""
           /\ ret'.value = Served(TargetName, ret'.arg[1], ret'.arg[2])
           /\ atime' = [atime EXCEPT ![TargetName] = now]]_vars

\* C11: getattr on an existing entry reports st_mtime equal to the mtime of
\* the entry and st_atime equal to its atime, so the atime a read or a
\* utimens has set shows in the next getattr.
C11_GetattrReportsTimes ==
    [][(GetattrStep /\ TargetName \in DOMAIN data)
        => /\ ret'.err = ""
           /\ ret'.value.st_mtime = mtime'[TargetName]
           /\ ret'.value.st_atime = atime'[TargetName]]_vars

\* the text each RW device file holds by default
DefaultText ==
    [backlight |-> <<"1">>, brightness |-> <<"2", "5", "5">>,
     contrast |-> <<"2", "5", "5">>, leds |-> <<"0">>]

\* the last request the terminal got is a form feed to the display
FormFeedFedLast ==
    /\ term # <<>>
    /\ term[Len(term)] = [op |-> "process_sequence", data |-> <<"\f">>]

\* C12: after destroy has returned, whatever was written before, every RW
\* file that exists reads its default (backlight 1, brightness 255,
\* contrast 255, leds 0), a form feed is the last thing fed to the display,
\* and the device backlight is off: turning it off came after the reset.
C12_DestroyLeavesDefaults ==
    ret.op = "destroy"
        => /\ ret.err = ""
           /\ \A n \in DOMAIN DefaultText \cap DOMAIN data :
                  ReadValue(n) = DefaultText[n] \o <<"\n">>
           /\ FormFeedFedLast
           /\ dev.backlight = <<FALSE>>

\* destroy after a write to brightness at time 1: only a write moves mtime
\* and leaves atime
C12_Witness ==
    /\ ret.op = "destroy" /\ ret.err = ""
    /\ target = <<"/", "brightness">>
    /\ "brightness" \in DOMAIN data
    /\ mtime["brightness"] = 1 /\ atime["brightness"] = 0
    /\ data["brightness"] = <<"2", "5", "5">>
    /\ dev.backlight = <<FALSE>>

\* a step of destroy: no other operation leaves "destroy" in ret without
\* the clock, the keypad or the lock changing
DestroyStep ==
    /\ ret'.op = "destroy"
    /\ now' = now
    /\ dev'.keypad = dev.keypad
    /\ dev'.locked = dev.locked

ExpectedListing ==
    {".", "..", "backlight", "keys", "display", "info"}
        \cup {n \in DOMAIN Capability : Capability[n] \in device.attrs}

\* the names a sequence lists
Listed(entries) == {entries[i] : i \in 1..Len(entries)}

\* C14: the readdir result is '.', '..', the four names always present and
\* exactly the optional names whose capability the device has, each once,
\* and it is the same in every reachable state: no read, write, truncate,
\* chmod, utimens, init or destroy adds or removes a name.
C14_ListingFixed ==
    /\ Listed(dir_entries) = ExpectedListing
    /\ Len(dir_entries) = Cardinality(ExpectedListing)
    /\ ret.op = "readdir"
        => /\ ret.err = ""
           /\ Listed(ret.value) = ExpectedListing
           /\ Len(ret.value) = Cardinality(ExpectedListing)
           /\ ret.value[1] = "." /\ ret.value[2] = ".."

\* readdir after a destroy on a device with leds and no lock: seven names
C14_Witness ==
    /\ ret.op = "readdir"
    /\ device.attrs = {"set_leds"}
    /\ Listed(ret.value) = {".", "..", "backlight", "keys", "display", "info", "leds"}
    /\ dev.backlight = <<FALSE>>

\* text holds line as a run of consecutive characters
Contains(text, line) ==
    \E i \in 1..(Len(text) - Len(line) + 1) : SubSeq(text, i, i + Len(line) - 1) = line

Blank(n) == [i \in 1..n |-> " "]

\* the line of the info text for a key: the key, blanks up to 16 columns,
\* " : ", then True or False
InfoKey ==
    [brightness |-> <<"b", "r", "i", "g", "h", "t", "n", "e", "s", "s">> \o Blank(6),
     contrast |-> <<"c", "o", "n", "t", "r", "a", "s", "t">> \o Blank(10 - 2),
     locked |-> <<"l", "o", "c", "k", "e", "d">> \o Blank(10)]

TrueText == <<"T", "r", "u", "e">>

FalseText == <<"F", "a", "l", "s", "e">>

InfoShows(key, text) ==
    Contains(data["info"], InfoKey[key] \o <<" ", ":", " ">> \o text \o <<"\n">>)

\* C15: mounted over the dummy device, which has no brightness, contrast,
\* leds or lock capability, readdir yields exactly '.', '..', backlight,
\* keys, display, info, and the info text reports brightness as False.
C15_DummyHasNoPanelFeatures ==
    device.name = <<"D", "u", "m", "m", "y", "D", "e", "v", "i", "c", "e">>
        => /\ Listed(dir_entries) = {".", "..", "backlight", "keys", "display", "info"}
           /\ InfoShows("brightness", FalseText)

\* C16: a read of the display file returns nothing, or fails with EACCES,
\* in every reachable state, whatever was written to display before: the
\* display handler keeps no cache that a read could return.
C16_DisplayReadsEmpty ==
    (ret.op = "read" /\ ret.path = <<"/", "display">>)
        => (ret.err = "EACCES" \/ (ret.err = "" /\ ret.value = <<>>))

\* the request the ANSI engine gets for a payload
Fed(d) == [op |-> "process_sequence", data |-> d]

\* the last MaxTerm requests of a history
Latest(h) == IF Len(h) > MaxTerm THEN SubSeq(h, Len(h) - MaxTerm + 1, Len(h)) ELSE h

\* C17: every FUSE write to display forwards its whole payload to the ANSI
\* engine exactly once, after what the engine got before, and returns the
\* length of the payload: the engine gets the payloads in the order of the
\* writes.
C17_DisplayForwardsInOrder ==
    [][(WriteStep /\ TargetName = "display")
        => /\ ret'.err = "" /\ ~ret'.none
           /\ ret'.value = Len(ret'.arg)
           /\ term' = Latest(Append(term, Fed(ret'.arg)))]_vars

\* two writes to display, a line then nothing: the engine has them in order
C17_Witness ==
    /\ ret.op = "write" /\ ret.err = ""
    /\ target = <<"/", "display">>
    /\ ret.arg = <<>> /\ ret.value = 0
    /\ term = <<Fed(<<"1", "2", "\n">>), Fed(<<>>)>>

\* the decimal text of each keypad state of these runs, written out
KeypadText == (0 :> <<"0">>) @@ (9 :> <<"9">>) @@ (10 :> <<"1", "0">>)

\* the keypad state of the device now: the dummy device always answers 9
KeypadNow ==
    IF device.name = <<"D", "u", "m", "m", "y", "D", "e", "v", "i", "c", "e">>
    THEN 9 ELSE dev.keypad

\* C18: every read of keys, and every size query on it, answers from the
\* keypad state of the device at the moment of the call: the decimal text
\* of the state and a newline (the length of the text plus one for the
\* size), whatever was read, written or cached before; with the dummy
\* device every read returns '9' and a newline.
C18_KeysReadLive ==
    /\ [](/\ ReadValue("keys") = KeypadText[KeypadNow] \o <<"\n">>
          /\ HandlerSize("keys") = Len(KeypadText[KeypadNow]) + 1)
    /\ [][(ReadStep /\ TargetName = "keys" /\ ret'.arg[2] = 0)
            => /\ ret'.err = ""
               /\ ret'.value = KeypadText[KeypadNow] \o <<"\n">>
               /\ data'["keys"] = KeypadText[KeypadNow]]_vars
    /\ [][(GetattrStep /\ TargetName = "keys")
            => /\ ret'.err = ""
               /\ ret'.value.st_size = Len(KeypadText[KeypadNow]) + 1]_vars

\* the keypad has moved to 10 since keys was read as 0: the cache is stale
\* and a read answers 10
C18_Witness ==
    /\ target = <<"/", "keys">>
    /\ ret.op = "read" /\ ret.err = "" /\ ret.value = <<"0", "\n">>
    /\ data["keys"] = <<"0">>
    /\ KeypadNow = 10
    /\ ReadValue("keys") = <<"1", "0", "\n">>

\* C19: the handles open returns within a mount are strictly increasing in
\* the order of the calls, whatever other FUSE operations come between: an
\* open returns a handle above the last one handed out, which no other
\* operation changes, so no handle is returned twice.
C19_HandlesIncrease ==
    [][/\ ret'.op = "open"
            => /\ ret'.err = "" /\ ~ret'.none
               /\ ret'.value > fd
               /\ fd' = ret'.value
       /\ ret'.op # "open" => fd' = fd]_vars

\* a second open, after init has started the monitor: handle 2
C19_Witness ==
    /\ ret.op = "open" /\ ret.err = ""
    /\ ret.value = 2 /\ fd = 2
    /\ kp_monitor_thread = "started"

\* what reset is about: the file caches and the settings of the device
ResetView(r) ==
    [err |-> r.err, data |-> r.fs.data,
     backlight |-> r.fs.dev.backlight, brightness |-> r.fs.dev.brightness,
     contrast |-> r.fs.dev.contrast, leds |-> r.fs.dev.leds]

\* C20: in every state a mount reaches, reset applied to what a first reset
\* left raises nothing and leaves every file cache and the backlight,
\* brightness, contrast and LEDs of the device as the first reset left them.
C20_ResetIdempotent ==
    /\ reset(FS).err = ""
    /\ ResetView(reset(reset(FS).fs)) = ResetView(reset(FS))

\* a state a reset changes: the backlight was written 0 and the device has
\* it off, the first reset turns it on again
C20_Witness ==
    /\ ret.op = "write" /\ ret.err = ""
    /\ data["backlight"] = <<"0">>
    /\ dev.backlight = <<FALSE>>
    /\ reset(FS).fs.data["backlight"] = <<"1">>
    /\ reset(FS).fs.dev.backlight = <<TRUE>>
    /\ reset(reset(FS).fs).fs.dev.backlight = <<TRUE>>

\* C21: after the decimal text of an integer v is written to backlight, the
\* device backlight is off when v is 0 and on for every other v.
C21_BacklightZeroOffElseOn ==
    \A v \in DOMAIN DecimalText :
        (/\ ret.op = "write" /\ ret.err = ""
         /\ TargetName = "backlight"
         /\ ret.arg = DecimalText[v])
        => dev.backlight = <<v # 0>>

\* a step of utimens: no other operation leaves "utimens" in ret without the
\* clock or the device changing
UtimensStep == ret'.op = "utimens" /\ now' = now /\ dev' = dev

\* the pair utimens was given, the current time twice when it was given None
GivenTimes(times) == IF times # <<>> THEN times ELSE <<now, now>>

\* C22: utimens on the path of a file of the directory returns without
\* error, the atime and mtime of that entry become the given pair (the
\* current time twice when no times are given), the timestamps of every
\* other entry and every file cache stay as they were; on a path that names
\* no file of the directory it raises ENOENT and changes none of them.
C22_UtimensSetsOneEntry ==
    [][UtimensStep =>
          /\ data' = data
          /\ TargetName \in DOMAIN data
                => /\ ret'.err = "" /\ ret'.none
                   /\ atime' = [atime EXCEPT ![TargetName] = GivenTimes(ret'.arg)[1]]
                   /\ mtime' = [mtime EXCEPT ![TargetName] = GivenTimes(ret'.arg)[2]]
          /\ (TargetName \notin DOMAIN data /\ target # <<"/">>)
                => /\ ret'.err = "ENOENT"
                   /\ atime' = atime
                   /\ mtime' = mtime]_vars

\* utimens has stamped info with a pair after the clock, and no other entry
C22_Witness ==
    /\ ret.op = "utimens" /\ ret.err = ""
    /\ target = <<"/", "info">>
    /\ ret.arg = <<MaxTime + 1, MaxTime + 2>>
    /\ atime["info"] = MaxTime + 1 /\ mtime["info"] = MaxTime + 2
    /\ now = 1
    /\ \A n \in DOMAIN atime \ {"info"} : atime[n] = 0 /\ mtime[n] = 0

\* the files whose cache shows a value sent to a setter of the device
SetterFiles == {"brightness", "contrast", "leds"}

\* the value the setter of such a file was last called with
LastSent(name) ==
    CASE name = "brightness" -> dev.brightness[1]
      [] name = "contrast" -> dev.contrast[1]
      [] name = "leds" -> dev.leds[1]

\* C23: in every reachable state, after destroy too, the backlight file
\* reads 1 exactly when the last state sent to the device backlight is on,
\* and brightness, contrast and leds read the decimal text of the last value
\* sent to their setter.
C23_CacheAgreesWithDevice ==
    /\ (ReadValue("backlight") = <<"1", "\n">>) <=> (dev.backlight = <<TRUE>>)
    /\ \A n \in SetterFiles \cap DOMAIN data :
           ReadValue(n) = StrInt(LastSent(n)) \o <<"\n">>

RECURSIVE Alternating(_, _, _)
\* the KEY events from i on carry, for each code, the value the code does
\* not hold: 1 for a code not held at 1 (never written, or last written 0),
\* 0 for a code held at 1
Alternating(events, i, keys) ==
    IF i > Len(events) THEN TRUE
    ELSE IF events[i].type # "EV_KEY" THEN Alternating(events, i + 1, keys)
    ELSE /\ events[i].value = (IF events[i].code \in keys THEN 0 ELSE 1)
         /\ Alternating(events, i + 1,
                        IF events[i].value = 1 THEN keys \cup {events[i].code}
                        ELSE keys \ {events[i].code})

\* each SYN of the events of a sample comes straight after a KEY event
SynAfterKey(events) ==
    \A i \in 1..Len(events) :
        events[i].type = "EV_SYN" => (i > 1 /\ events[i - 1].type = "EV_KEY")

\* C24: whatever the keypad does, the KEY events the monitor emits for a key
\* code alternate 1, 0, 1, 0, ... from 1 on (each carries the value the code
\* was not last emitted with, a code never emitted counting as released), and
\* every SYN follows at least one KEY event emitted since the previous SYN.
C24_KeyEventsAlternate ==
    [][(mon.pc = "poll" /\ mon'.pc = "sleep")
        => /\ Alternating(mon'.events, 1, mon.ui_keys)
           /\ SynAfterKey(mon'.events)]_vars

\* a later sample: one key released after its press, another pressed
C24_Witness ==
    /\ mon.pc = "sleep"
    /\ Len(mon.events) = 3
    /\ mon.events[1] = KeyEvent("KEY_ESC", 0)
    /\ mon.events[2] = KeyEvent("KEY_OK", 1)
    /\ mon.events[3] = SynEvent
    /\ mon.ui_keys = {"KEY_OK"}

\* what a read of the info file returns holds the line of a key with a text
InfoReads(key, text) ==
    Contains(ReadValue("info"), InfoKey[key] \o <<" ", ":", " ">> \o text \o <<"\n">>)

\* C25: on every device class, in every reachable state, the info text and
\* the directory agree: the line of brightness, contrast and locked shows
\* True when the file of that name is listed and False when it is not.
C25_InfoAgreesWithListing ==
    \A k \in DOMAIN InfoKey :
        /\ InfoReads(k, TrueText) <=> InListing(k)
        /\ InfoReads(k, FalseText) <=> ~InListing(k)

\* the info file read on a device with a lock and no brightness
C25_Witness ==
    /\ ret.op = "read" /\ ret.err = "" /\ target = <<"/", "info">>
    /\ Contains(ret.value, InfoKey["locked"] \o <<" ", ":", " ">> \o TrueText \o <<"\n">>)
    /\ Contains(ret.value, InfoKey["brightness"] \o <<" ", ":", " ">> \o FalseText \o <<"\n">>)
    /\ InListing("locked") /\ ~InListing("brightness")
    /\ ~InListing("leds")

\* the files whose write calls a setter of the device
DeviceFiles == {"backlight", "brightness", "contrast", "leds"}

\* a step of write over a device that fails throughout the call
FailingWriteStep == WriteStep /\ dev.failing /\ dev'.failing

\* C26: when the setter called by a write to a RW file raises a device
\* error (the payload has been parsed, the device fails), the FUSE write
\* raises that error and the cached text of every file, what a read of the
\* target returns and the mtime of every entry are as before the write.
C26_DeviceErrorLeavesCache ==
    [][(/\ FailingWriteStep
        /\ TargetName \in DeviceFiles \cap DOMAIN data
        /\ ret'.arg \notin Unparseable(TargetName))
        => /\ ret'.err = "DeviceError"
           /\ data' = data
           /\ ReadValue(TargetName)' = ReadValue(TargetName)
           /\ mtime' = mtime]_vars

\* brightness was written 2 at time 0 and accepted, then 1 at time 1 while
\* the device failed: the cache still holds 2 and the mtime is still 0
C26_Witness ==
    /\ ret.op = "write" /\ ret.err = "DeviceError"
    /\ target = <<"/", "brightness">>
    /\ ret.arg = <<"1">>
    /\ dev.failing
    /\ data["brightness"] = <<"2">> /\ dev.brightness = <<2>>
    /\ mtime["brightness"] = 0 /\ now = 1

=============================================================================
